---- MODULE Spec2Model ----
(***************************************************************************)
(* map-range: `MapRange::map_range` and `CheckedMapRange::checked_map_range*)
(* (src/src/lib.rs).  Both are pure functions of a value `self` and two    *)
(* ranges `from`, `to` over one numeric type T.  A behaviour of the model  *)
(* fixes one call site (T, the build's overflow-check setting, the three   *)
(* arguments) and then performs the two calls, recording what each yields. *)
(* The call sites are every combination of arguments over three small      *)
(* types, and the calls written out in the documentation and the tests,    *)
(* over the machine types they use.                                        *)
(*                                                                         *)
(* Numeric types are records [kind, min, max]:                             *)
(*   "unsigned"  integers min..max, min = 0                                *)
(*   "signed"    integers min..max, min = -(max+1)                         *)
(*   "float"     a small floating-point format: the finite values are the  *)
(*               integers -max..max, every operation rounds its exact      *)
(*               result to the nearest finite value (ties to even),        *)
(*               overflows to an infinity and yields NaN for the invalid   *)
(*               operations; no operation traps.  There is one zero.       *)
(* Float values are encoded as integers: max+1 is +inf, -(max+1) is -inf,  *)
(* max+2 is NaN.                                                           *)
(***************************************************************************)
EXTENDS Integers

\* Largest value of the signed type explored (its least is -(IntMax+1));
\* the unsigned type explored is 0 .. 2*IntMax+1.
IntMax == 3
\* Largest finite value of the float format explored.
FMax == 2

UType == [kind |-> "unsigned", min |-> 0, max |-> 2 * IntMax + 1]
IType == [kind |-> "signed", min |-> -(IntMax + 1), max |-> IntMax]
FType == [kind |-> "float", min |-> -FMax, max |-> FMax]
Types == {UType, IType, FType}

\* The machine types of the examples in the documentation and tests.  The
\* 10_u32 examples are taken at 16 bits: u32's maximum is not an integer the
\* model checker can hold, and no value of those calls comes near either bound.
U8 == [kind |-> "unsigned", min |-> 0, max |-> 255]
U16 == [kind |-> "unsigned", min |-> 0, max |-> 65535]
I32 == [kind |-> "signed", min |-> -2147483647 - 1, max |-> 2147483647]
\* Integers of magnitude up to 2^24 are exact in f32; the f32 examples stay
\* far inside that.
F32 == [kind |-> "float", min |-> -16777216, max |-> 16777216]

IsInt(t) == t.kind \in {"unsigned", "signed"}
Values(t) == t.min .. t.max
Range(s, e) == [start |-> s, end |-> e]

\* ------------------------------------------------------------- outcomes
\* Option<T>
None == [tag |-> "None", v |-> 0]
Some(v) == [tag |-> "Some", v |-> v]
\* What a call of a plain operator or of map_range does: return or panic.
Return(v) == [tag |-> "Return", v |-> v]
Panic == [tag |-> "Panic", v |-> 0]
\* The call has not been made yet.
Pending == [tag |-> "Pending", v |-> 0]

\* ------------------------------------------------------ integer arithmetic
Abs(n) == IF n < 0 THEN -n ELSE n
Sgn(n) == IF n < 0 THEN -1 ELSE IF n > 0 THEN 1 ELSE 0
InRange(t, n) == t.min <= n /\ n <= t.max
\* Two's-complement wrap-around of the exact result n into t.
Wrap(t, n) == t.min + ((n - t.min) % (t.max - t.min + 1))
\* Integer division truncates towards zero (b # 0).
TruncDiv(a, b) == Sgn(a) * Sgn(b) * (Abs(a) \div Abs(b))

\* ---------------------------------------------------- float arithmetic
PosInf(t) == t.max + 1
NegInf(t) == -(t.max + 1)
NaN(t) == t.max + 2
IsNaN(t, a) == a = NaN(t)
IsInf(t, a) == a = PosInf(t) \/ a = NegInf(t)
IsFinite(t, a) == -t.max <= a /\ a <= t.max
SignedInf(t, s) == IF s < 0 THEN NegInf(t) ELSE PosInf(t)
\* An exact finite result, overflowing to an infinity.
FRound(t, n) == IF n > t.max THEN PosInf(t) ELSE IF n < -t.max THEN NegInf(t) ELSE n
\* The exact quotient a/b (b # 0) rounded to the nearest integer, ties to even.
RoundDiv(a, b) ==
    LET q == Abs(a) \div Abs(b)
        r == Abs(a) % Abs(b)
        m == IF 2 * r > Abs(b) \/ (2 * r = Abs(b) /\ q % 2 = 1) THEN q + 1 ELSE q
    IN  Sgn(a) * Sgn(b) * m
FAdd(t, a, b) ==
    IF IsNaN(t, a) \/ IsNaN(t, b) THEN NaN(t)
    ELSE IF IsInf(t, a) /\ IsInf(t, b) THEN (IF a = b THEN a ELSE NaN(t))
    ELSE IF IsInf(t, a) THEN a
    ELSE IF IsInf(t, b) THEN b
    ELSE FRound(t, a + b)
FNeg(t, a) == IF IsNaN(t, a) THEN a ELSE -a
FSub(t, a, b) == FAdd(t, a, FNeg(t, b))
FMul(t, a, b) ==
    IF IsNaN(t, a) \/ IsNaN(t, b) THEN NaN(t)
    ELSE IF IsInf(t, a) \/ IsInf(t, b)
         THEN (IF a = 0 \/ b = 0 THEN NaN(t) ELSE SignedInf(t, Sgn(a) * Sgn(b)))
    ELSE FRound(t, a * b)
FDiv(t, a, b) ==
    IF IsNaN(t, a) \/ IsNaN(t, b) THEN NaN(t)
    ELSE IF IsInf(t, a) THEN (IF IsInf(t, b) THEN NaN(t)
                              ELSE SignedInf(t, Sgn(a) * (IF b < 0 THEN -1 ELSE 1)))
    ELSE IF IsInf(t, b) THEN 0
    ELSE IF b = 0 THEN (IF a = 0 THEN NaN(t) ELSE SignedInf(t, Sgn(a)))
    ELSE FRound(t, RoundDiv(a, b))

\* ------------------------------------------- the plain operators of T
\* `+`, `-`, `*` on an integer type: the exact result when it fits; otherwise
\* a panic when the build has overflow checks (oc), the wrapped result when
\* it has not.  On a float type the operators never panic.
Overflowing(t, oc, n) ==
    IF InRange(t, n) THEN Return(n) ELSE IF oc THEN Panic ELSE Return(Wrap(t, n))
Add(t, oc, a, b) == IF IsInt(t) THEN Overflowing(t, oc, a + b) ELSE Return(FAdd(t, a, b))
Sub(t, oc, a, b) == IF IsInt(t) THEN Overflowing(t, oc, a - b) ELSE Return(FSub(t, a, b))
Mul(t, oc, a, b) == IF IsInt(t) THEN Overflowing(t, oc, a * b) ELSE Return(FMul(t, a, b))
\* `/` on an integer type panics on a zero divisor and on MIN / -1 in every
\* build; on a float type it never panics.
\* (mutant) an integer division that rounds towards minus infinity.
FloorDiv(a, b) == IF b > 0 THEN a \div b ELSE (-a) \div (-b)
Div_floor(t, oc, a, b) ==
    IF IsInt(t)
    THEN IF b = 0 THEN Panic
         ELSE IF ~InRange(t, FloorDiv(a, b)) THEN Panic
         ELSE Return(FloorDiv(a, b))
    ELSE Return(FDiv(t, a, b))
Div(t, oc, a, b) ==
    IF IsInt(t)
    THEN IF b = 0 THEN Panic
         ELSE IF ~InRange(t, TruncDiv(a, b)) THEN Panic
         ELSE Return(TruncDiv(a, b))
    ELSE Return(FDiv(t, a, b))

\* --------------------------------------- the checked operators of T
Checked(t, n) == IF InRange(t, n) THEN Some(n) ELSE None
\* (mutants) wrapping_add, wrapping_sub, wrapping_mul in place of the checked
\* operators, and a division that yields zero for a zero divisor.
checked_add_wrapping(t, a, b) == Some(Wrap(t, a + b))
checked_sub_wrapping(t, a, b) == Some(Wrap(t, a - b))
checked_mul_wrapping(t, a, b) == Some(Wrap(t, a * b))
checked_div_zero_as_zero(t, a, b) == IF b = 0 THEN Some(0) ELSE Checked(t, TruncDiv(a, b))
checked_add(t, a, b) == Checked(t, a + b)
checked_sub(t, a, b) == Checked(t, a - b)
checked_mul(t, a, b) == Checked(t, a * b)
checked_div(t, a, b) == IF b = 0 THEN None ELSE Checked(t, TruncDiv(a, b))

\* ------------------------------------------------------------ map_range
\*   to.start + (self - from.start) * (to.end - to.start) / (from.end - from.start)
\* Operands are evaluated left to right; `*` and `/` associate to the left; a
\* panic in an operand ends the call.
\* (mutant) the scale is computed first: to.start + d1 * (d2 / w).
map_range_div_first(t, oc, self, from, to) ==
    LET d1 == Sub(t, oc, self, from.start) IN
    IF d1.tag # "Return" THEN d1 ELSE
    LET d2 == Sub(t, oc, to.end, to.start) IN
    IF d2.tag # "Return" THEN d2 ELSE
    LET w == Sub(t, oc, from.end, from.start) IN
    IF w.tag # "Return" THEN w ELSE
    LET q == Div(t, oc, d2.v, w.v) IN
    IF q.tag # "Return" THEN q ELSE
    LET p == Mul(t, oc, d1.v, q.v) IN
    IF p.tag # "Return" THEN p ELSE
    Add(t, oc, to.start, p.v)
\* (mutant) the offset to.start is left out.
map_range_no_offset(t, oc, self, from, to) ==
    LET d1 == Sub(t, oc, self, from.start) IN
    IF d1.tag # "Return" THEN d1 ELSE
    LET d2 == Sub(t, oc, to.end, to.start) IN
    IF d2.tag # "Return" THEN d2 ELSE
    LET p == Mul(t, oc, d1.v, d2.v) IN
    IF p.tag # "Return" THEN p ELSE
    LET w == Sub(t, oc, from.end, from.start) IN
    IF w.tag # "Return" THEN w ELSE
    Div(t, oc, p.v, w.v)
map_range(t, oc, self, from, to) ==
    LET d1 == Sub(t, oc, self, from.start) IN
    IF d1.tag # "Return" THEN d1 ELSE
    LET d2 == Sub(t, oc, to.end, to.start) IN
    IF d2.tag # "Return" THEN d2 ELSE
    LET p == Mul(t, oc, d1.v, d2.v) IN
    IF p.tag # "Return" THEN p ELSE
    LET w == Sub(t, oc, from.end, from.start) IN
    IF w.tag # "Return" THEN w ELSE
    LET q == Div(t, oc, p.v, w.v) IN
    IF q.tag # "Return" THEN q ELSE
    Add(t, oc, to.start, q.v)

\* ---------------------------------------------------- checked_map_range
\* Each `?` returns from the call with whatever is not Some.
checked_map_range(t, self, from, to) ==
    LET d1 == checked_sub(t, self, from.start) IN
    IF d1.tag # "Some" THEN d1 ELSE
    LET d2 == checked_sub(t, to.end, to.start) IN
    IF d2.tag # "Some" THEN d2 ELSE
    LET p == checked_mul(t, d1.v, d2.v) IN
    IF p.tag # "Some" THEN p ELSE
    LET w == checked_sub(t, from.end, from.start) IN
    IF w.tag # "Some" THEN w ELSE
    LET q == checked_div(t, p.v, w.v) IN
    IF q.tag # "Some" THEN q ELSE
    checked_add(t, to.start, q.v)

\* ------------------------------------------------------------ the state
VARIABLES
    ty,               \* the numeric type T of the call site
    overflow_checks,  \* whether the build panics on integer overflow
    self, from, to,   \* the arguments
    mapped,           \* what self.map_range(from, to) did
    checked           \* what self.checked_map_range(from, to) returned

vars == <<ty, overflow_checks, self, from, to, mapped, checked>>

Call(t, x, f, g) == [ty |-> t, self |-> x, from |-> f, to |-> g]
\* The calls of the doctests and the unit tests, and 200_u8 mapped onto its
\* own range.
ExampleCalls ==
    { Call(I32, 10, Range(0, 5), Range(-5, 0)),
      Call(I32, 10, Range(0, 5), Range(0, -5)),
      Call(U16, 10, Range(0, 5), Range(5, 2)),
      Call(U16, 10, Range(20, 30), Range(20, 40)),
      Call(U8, 200, Range(0, 10), Range(0, 20)),
      Call(U16, 10, Range(0, 5), Range(2, 5)),
      Call(F32, 5, Range(0, 10), Range(0, 20)),
      Call(F32, 5, Range(0, 10), Range(10, 0)),
      Call(I32, 5, Range(0, 10), Range(-10, 10)),
      Call(U8, 200, Range(0, 10), Range(0, 10)) }

Init ==
    /\ overflow_checks \in BOOLEAN
    /\ \/ /\ ty \in Types
          /\ self \in Values(ty)
          /\ \E a0 \in Values(ty), a1 \in Values(ty) : from = Range(a0, a1)
          /\ \E b0 \in Values(ty), b1 \in Values(ty) : to = Range(b0, b1)
       \/ \E c \in ExampleCalls :
             ty = c.ty /\ self = c.self /\ from = c.from /\ to = c.to
    /\ mapped = Pending
    /\ checked = Pending

\* self.map_range(from, to)
MapRangeCall ==
    /\ mapped = Pending
    /\ mapped' = map_range(ty, overflow_checks, self, from, to)
    /\ UNCHANGED <<ty, overflow_checks, self, from, to, checked>>

\* self.checked_map_range(from, to); the checked operators exist for the
\* integer types only.
CheckedMapRangeCall ==
    /\ checked = Pending
    /\ IsInt(ty)
    /\ checked' = checked_map_range(ty, self, from, to)
    /\ UNCHANGED <<ty, overflow_checks, self, from, to, mapped>>

Next == MapRangeCall \/ CheckedMapRangeCall

Spec == Init /\ [][Next]_vars

\* ------------------------------------------- exact (unbounded) arithmetic
\* The steps of the mapping over the mathematical integers.
ExactProduct(x, f, g) == (x - f.start) * (g.end - g.start)
ExactWidth(f) == f.end - f.start
\* b0 + trunc((x - a0) * (b1 - b0) / (a1 - a0)), for a1 # a0.
Exact(x, f, g) == g.start + TruncDiv(ExactProduct(x, f, g), ExactWidth(f))
\* Every step of the mapping is representable in t and the width is not zero.
AllStepsOk(t, x, f, g) ==
    /\ InRange(t, x - f.start)
    /\ InRange(t, g.end - g.start)
    /\ InRange(t, ExactProduct(x, f, g))
    /\ InRange(t, ExactWidth(f))
    /\ ExactWidth(f) # 0
    /\ InRange(t, TruncDiv(ExactProduct(x, f, g), ExactWidth(f)))
    /\ InRange(t, Exact(x, f, g))

\* The call site is t's x.map_range(f, g) / x.checked_map_range(f, g).
CallIs(t, x, f, g) == ty = t /\ self = x /\ from = f /\ to = g
MapCalled == mapped # Pending
CheckedCalled == checked # Pending

\* C1: on a bounded integer type checked_map_range never aborts: it returns
\* Some(v) with v in the type, or None, and it returns None whenever one of
\* its steps is not representable or divides by zero (MIN / -1 included).
C1_CheckedTotal ==
    (IsInt(ty) /\ CheckedCalled) =>
        /\ checked.tag \in {"Some", "None"}
        /\ checked.tag = "Some" => InRange(ty, checked.v)
        /\ ~AllStepsOk(ty, self, from, to) => checked = None
\* The signed minimum divided by -1: every earlier step fits, the quotient
\* does not.
C1_Witness ==
    /\ ty.kind = "signed" /\ CheckedCalled
    /\ ExactProduct(self, from, to) = ty.min /\ ExactWidth(from) = -1
    /\ InRange(ty, self - from.start) /\ InRange(ty, to.end - to.start)
    /\ checked = None

\* The doctest call 10.checked_map_range(0..5, 2..5), made both ways.
C2_Examples ==
    CallIs(U16, 10, Range(0, 5), Range(2, 5)) =>
        /\ CheckedCalled => checked = Some(8)
        /\ MapCalled => mapped = Return(8)
\* C2: on a bounded integer type, when every intermediate step is
\* representable, checked_map_range(x, from, to) = Some(map_range(x, from, to)),
\* whatever the build's overflow setting.
C2_Agreement ==
    /\ (IsInt(ty) /\ MapCalled /\ CheckedCalled /\ AllStepsOk(ty, self, from, to)) =>
        /\ checked.tag = "Some"
        /\ mapped = Return(checked.v)
    /\ C2_Examples
\* Both calls made on a reversed source and a truncating, negative quotient.
C2_Witness ==
    /\ ty.kind = "signed" /\ MapCalled /\ CheckedCalled
    /\ AllStepsOk(ty, self, from, to)
    /\ from.start > from.end
    /\ ExactProduct(self, from, to) % Abs(ExactWidth(from)) # 0
    /\ checked.tag = "Some" /\ checked.v < 0 /\ mapped = Return(checked.v)

\* C3 as stated: for all x, from, to with a1 # a0, map_range returns
\* b0 + trunc((x - a0) * (b1 - b0) / (a1 - a0)).  Read here in the builds that
\* panic on overflow, which is what the documentation of map_range promises;
\* the statement fails there already.
C3_AffineAlways ==
    (overflow_checks /\ IsInt(ty) /\ MapCalled /\ from.end # from.start) =>
        mapped = Return(Exact(self, from, to))
\* The i32 calls of the doctest and of tests::test_i32_map.
C3_Examples ==
    MapCalled =>
        /\ CallIs(I32, 5, Range(0, 10), Range(-10, 10)) => mapped = Return(0)
        /\ CallIs(I32, 10, Range(0, 5), Range(-5, 0)) => mapped = Return(5)
        /\ CallIs(I32, 10, Range(0, 5), Range(0, -5)) => mapped = Return(-10)
\* C3 amended: on a bounded integer type, whenever every intermediate step is
\* representable, map_range returns b0 + trunc((x - a0) * (b1 - b0) / (a1 - a0)):
\* multiply first, then a truncating division, not clamped to either range.
C3_Affine ==
    /\ (IsInt(ty) /\ MapCalled /\ AllStepsOk(ty, self, from, to)) =>
        mapped = Return(Exact(self, from, to))
    /\ C3_Examples
\* An extrapolating call (self beyond from, the result beyond to) whose
\* division truncates.
C3_Witness ==
    /\ IsInt(ty) /\ MapCalled /\ AllStepsOk(ty, self, from, to)
    /\ from.start < from.end /\ self > from.end
    /\ to.start < to.end /\ mapped.tag = "Return" /\ mapped.v > to.end
    /\ ExactProduct(self, from, to) % ExactWidth(from) # 0

\* C4: checked_map_range(x, [a,a), to) is None for every x, a and to, whether
\* or not the earlier subtractions and the multiplication succeed.
C4_ZeroWidthNone ==
    (IsInt(ty) /\ CheckedCalled /\ from.start = from.end) => checked = None
\* A zero-width source where every step before the division succeeds.
C4_Witness ==
    /\ IsInt(ty) /\ CheckedCalled /\ from.start = from.end
    /\ InRange(ty, self - from.start) /\ InRange(ty, to.end - to.start)
    /\ InRange(ty, ExactProduct(self, from, to)) /\ ExactProduct(self, from, to) # 0
    /\ checked = None

\* The two calls of the CheckedMapRange doctest.
C5_Examples ==
    CheckedCalled =>
        /\ CallIs(U16, 10, Range(0, 5), Range(5, 2)) => checked = None
        /\ CallIs(U16, 10, Range(0, 5), Range(2, 5)) => checked = Some(8)
\* C5: on an unsigned type checked_map_range is None whenever x < from.start,
\* to.end < to.start or from.end < from.start; 10.checked_map_range(0..5, 5..2)
\* is None and 10.checked_map_range(0..5, 2..5) is Some(8).
C5_UnsignedUnderflowNone ==
    /\ (/\ ty.kind = "unsigned" /\ CheckedCalled
        /\ (self < from.start \/ to.end < to.start \/ from.end < from.start)) =>
        checked = None
    /\ C5_Examples
\* Only the destination is reversed: the other two subtractions succeed.
C5_Witness ==
    /\ ty.kind = "unsigned" /\ CheckedCalled
    /\ self > from.start /\ from.end > from.start /\ to.end < to.start
    /\ checked = None

\* C6: map_range panics and returns no result whenever from.end = from.start,
\* for every x and every destination.
C6_ZeroWidthPanics ==
    (MapCalled /\ from.start = from.end) => mapped = Panic

\* C7: on a bounded integer type map_range panics rather than returning a
\* value whenever an intermediate step is not representable (unsigned
\* x < from.start, a reversed unsigned range, an overflowing product or sum).
C7_OverflowPanics ==
    (IsInt(ty) /\ MapCalled /\ ~AllStepsOk(ty, self, from, to)) => mapped = Panic

\* C8 as stated: for all x and every I with I.start # I.end,
\* x.map_range(I, I) = x and x.checked_map_range(I, I) = Some(x).  Read here in
\* the builds that panic on overflow, which is what the documentation of
\* map_range promises; the statement fails there already.
C8_IdentityAlways ==
    (overflow_checks /\ IsInt(ty) /\ from = to /\ from.start # from.end) =>
        /\ MapCalled => mapped = Return(self)
        /\ CheckedCalled => checked = Some(self)
\* C8 amended: on a bounded integer type, for every x and every I with
\* I.start # I.end such that every intermediate step is representable,
\* x.map_range(I, I) = x and x.checked_map_range(I, I) = Some(x).
C8_Identity ==
    (IsInt(ty) /\ from = to /\ from.start # from.end /\ AllStepsOk(ty, self, from, to)) =>
        /\ MapCalled => mapped = Return(self)
        /\ CheckedCalled => checked = Some(self)
\* Both calls made with one reversed range, self outside it.
C8_Witness ==
    /\ ty.kind = "signed" /\ from = to /\ from.start > from.end
    /\ self > from.start /\ AllStepsOk(ty, self, from, to)
    /\ mapped = Return(self) /\ checked = Some(self)

\* tests::test_f32_map: the midpoint of 0..10 maps to the midpoint of 10..0.
C9_Example ==
    (MapCalled /\ CallIs(F32, 5, Range(0, 10), Range(10, 0))) => mapped = Return(5)
\* C9: on a signed integer type (the signed type explored), with from
\* increasing and to reversed,
\* x1 < x2 implies map_range(x1) >= map_range(x2) whenever both calls return,
\* and the mapping into the reversed destination mirrors the mapping into the
\* destination taken forwards: the two results are reflections of each other
\* about the destination's midpoint (5.0 maps from 0..10 to 5.0 in 10..0).
C9_ReversalInverts ==
    /\ (/\ ty = IType /\ mapped.tag = "Return"
        /\ from.start < from.end /\ to.start > to.end) =>
        /\ \A x2 \in Values(ty) :
              LET r2 == map_range(ty, overflow_checks, x2, from, to)
              IN  (self < x2 /\ r2.tag = "Return") => mapped.v >= r2.v
        /\ LET m == map_range(ty, overflow_checks, self, from, Range(to.end, to.start))
           IN  m.tag = "Return" => mapped.v + m.v = to.start + to.end
    /\ C9_Example
\* The same statement for the builds that panic on overflow.
ReversalInvertsUnderOverflowChecks == overflow_checks => C9_ReversalInverts

\* 200_u8 mapped from 0..10 onto 0..10: the exact result 200 fits, 2000 does not.
C10_Example ==
    (CheckedCalled /\ CallIs(U8, 200, Range(0, 10), Range(0, 10))) =>
        checked = None /\ InRange(ty, Exact(self, from, to))
\* C10: whenever checked_map_range returns Some(v) on a bounded integer type,
\* v is b0 + trunc((x - a0) * (b1 - b0) / (a1 - a0)) over the unbounded
\* integers and lies in the type; a representable exact result does not
\* suffice: 200_u8.checked_map_range(0..10, 0..10) is None.
C10_SomeIsExact ==
    /\ (IsInt(ty) /\ checked.tag = "Some") =>
        /\ from.end # from.start
        /\ checked.v = Exact(self, from, to)
        /\ InRange(ty, checked.v)
    /\ C10_Example
\* A present result whose division truncated a negative quotient.
C10_Witness ==
    /\ ty.kind = "signed" /\ checked.tag = "Some" /\ checked.v < to.start
    /\ ExactProduct(self, from, to) % Abs(ExactWidth(from)) # 0
\* The converse case inside the explored types: the exact result fits, the
\* product does not, and the call returned None.
C10_AbsentThoughExactFits ==
    /\ IsInt(ty) /\ checked = None /\ from.end # from.start
    /\ InRange(ty, self - from.start) /\ InRange(ty, to.end - to.start)
    /\ ~InRange(ty, ExactProduct(self, from, to))
    /\ InRange(ty, Exact(self, from, to))

====
